---- MODULE Spec2Model ----
(***************************************************************************)
(* Scheduled-booking lifecycle engine of RighttouchServerNew               *)
(* (src/Utils/sendReminder.js): the activation job, the three reminder     *)
(* jobs and the no-show safety job, run as overlapping asynchronous ticks  *)
(* against one booking store.  Every `await` of a cron callback is a step  *)
(* boundary: between two steps of a tick any other tick, the acceptance    *)
(* flow, the execution flow and the clock may move.                        *)
(***************************************************************************)
EXTENDS Integers, Sequences, FiniteSets

(* ------------------------------ bounds -------------------------------- *)
NumBookings == 2
MaxTicks == 3
MaxAssign == 2
MaxFailures == 1

(* --------------------------- time, in ms ------------------------------ *)
MIN == 60 * 1000
HOUR == 60 * MIN

NULL == -1

Ids == 1..NumBookings
Slots == {1, 2}
Kinds == {"h24", "h1", "min15"}
Jobs == {"activate", "h24", "h1", "min15", "noshow"}

\* Booking 1 is due at DueAt, each further booking 45 minutes after the one
\* before it.
DueAt == 26 * HOUR
DueAtOf(b) == DueAt + (b - 1) * 45 * MIN

\* The instants at which the store is observed: before every window of
\* booking 1, inside its 24h, 1h and 15min windows (the last is also its
\* activation horizon), and at its no-show cutoff, when booking 2 is 15
\* minutes ahead.
Instants == {0, DueAt - 24 * HOUR, DueAt - HOUR, DueAt - 15 * MIN, DueAt + 30 * MIN}

VARIABLES bookings, clock, ticks, ghost, started, failures,
          kycs, profiles, strictQuery, res, call

\* the booking engine, the KYC controllers, and the two notification helpers
engine == <<bookings, clock, ticks, ghost, started, failures>>
kycVars == <<kycs, profiles, strictQuery, res>>

vars == <<bookings, clock, ticks, ghost, started, failures,
          kycs, profiles, strictQuery, res, call>>

(* ------------------------- the booking store -------------------------- *)
NoReminders == [k \in Kinds |-> FALSE]

NewBooking(st, at) ==
    [status |-> st, scheduledAt |-> at, technicianId |-> NULL,
     remindersSent |-> NoReminders, noShowAt |-> NULL, assignedAt |-> NULL]

\* activateScheduledBookings: the find() filter
ActivateSelectLate(bk, now) ==
    /\ bk.status = "scheduled"
    /\ bk.scheduledAt >= now
    /\ bk.scheduledAt <= now + 15 * MIN

ActivateSelect(bk, now) ==
    /\ bk.status = "scheduled"
    /\ bk.scheduledAt <= now + 15 * MIN

\* activateScheduledBookings: the updateOne() filter and $set
ActivateFilterAny(bk) == TRUE

ActivateFilter(bk) == bk.status = "scheduled"

ActivateSet(bk) == [bk EXCEPT !.status = "requested"]

\* the reminder jobs: windowMin and windowMax
WindowMin(k, now) ==
    CASE k = "h24" -> now + 23 * 60 * 60 * 1000
      [] k = "h1" -> now + 55 * 60 * 1000
      [] k = "min15" -> now + 10 * 60 * 1000

WindowMax(k, now) ==
    CASE k = "h24" -> now + 25 * 60 * 60 * 1000
      [] k = "h1" -> now + 65 * 60 * 1000
      [] k = "min15" -> now + 20 * 60 * 1000

\* the reminder jobs: the find() filter
ReminderSelectOpen(bk, k, now) ==
    /\ bk.status = "accepted"
    /\ bk.scheduledAt > WindowMin(k, now)
    /\ bk.scheduledAt < WindowMax(k, now)
    /\ bk.remindersSent[k] = FALSE

ReminderSelect(bk, k, now) ==
    /\ bk.status = "accepted"
    /\ bk.scheduledAt >= WindowMin(k, now)
    /\ bk.scheduledAt <= WindowMax(k, now)
    /\ bk.remindersSent[k] = FALSE

\* the reminder jobs: the updateOne() $set, on a dotted path
ReminderSetWhole(bk, k) == [bk EXCEPT !.remindersSent = [j \in Kinds |-> j = k]]

ReminderSet(bk, k) == [bk EXCEPT !.remindersSent[k] = TRUE]

\* handleNoShowSafety: the find() filter
NoShowSelectAfter(bk, now) ==
    /\ bk.status = "accepted"
    /\ bk.scheduledAt < now - 30 * MIN
    /\ bk.noShowAt = NULL
    /\ bk.technicianId # NULL

NoShowSelect(bk, now) ==
    /\ bk.status = "accepted"
    /\ bk.scheduledAt <= now - 30 * MIN
    /\ bk.noShowAt = NULL
    /\ bk.technicianId # NULL

\* handleNoShowSafety: the findOneAndUpdate() filter and $set
NoShowFilterAny(bk) == bk.noShowAt = NULL

NoShowFilterNone(bk) == TRUE

NoShowFilter(bk) ==
    /\ bk.status = "accepted"
    /\ bk.noShowAt = NULL

NoShowSetKeepStatus(bk, now) ==
    [bk EXCEPT !.technicianId = NULL, !.noShowAt = now,
               !.remindersSent = NoReminders, !.assignedAt = NULL]

NoShowSetKeepFlags(bk, now) ==
    [bk EXCEPT !.technicianId = NULL, !.status = "requested",
               !.noShowAt = now, !.assignedAt = NULL]

NoShowSet(bk, now) ==
    [bk EXCEPT !.technicianId = NULL, !.status = "requested",
               !.noShowAt = now, !.remindersSent = NoReminders,
               !.assignedAt = NULL]

Select(job, bk, now) ==
    CASE job = "activate" -> ActivateSelect(bk, now)
      [] job = "noshow" -> NoShowSelect(bk, now)
      [] OTHER -> ReminderSelect(bk, job, now)

(* ------------------------------ ticks --------------------------------- *)
\* What one tick did for one booking, kept for the tick's post-conditions.
NoLog == [upd |-> "none", prev |-> NULL, doc |-> NULL,
          mb |-> 0, mbThrew |-> FALSE, nt |-> 0, ntFailed |-> FALSE, sent |-> 0]

IdleTick == [job |-> "none", pc |-> "idle", now |-> 0, batch |-> <<>>, i |-> 0,
             err |-> FALSE, log |-> [b \in Ids |-> NoLog]]

\* The documents a find() returns, in _id order, as the fields select() keeps.
RECURSIVE Query(_, _, _, _)
Query(job, store, now, b) ==
    IF b \notin Ids THEN <<>>
    ELSE (IF Select(job, store[b], now)
          THEN <<[id |-> b, technicianId |-> store[b].technicianId]>>
          ELSE <<>>) \o Query(job, store, now, b + 1)

FirstPc(job) ==
    CASE job = "activate" -> "act_update"
      [] job = "noshow" -> "ns_update"
      [] OTHER -> "rem_send"

Cur(t) == ticks[t].batch[ticks[t].i]

\* The for-loop moves to the next booking of the batch, or the tick ends.
NextBookingStop(tk) ==
    IF tk.i < Len(tk.batch) /\ ~tk.err
    THEN [tk EXCEPT !.i = tk.i + 1, !.pc = FirstPc(tk.job)]
    ELSE [tk EXCEPT !.pc = "done"]

NextBooking(tk) ==
    IF tk.i < Len(tk.batch)
    THEN [tk EXCEPT !.i = tk.i + 1, !.pc = FirstPc(tk.job)]
    ELSE [tk EXCEPT !.pc = "done"]

CanFail == failures < MaxFailures

(* ------------------------------- ghost -------------------------------- *)
\* epoch[b]: number of assignments b has had; technician e is the one of
\* assignment e.  The rest counts what the claims speak about.
InitGhost ==
    [epoch |-> [b \in Ids |-> 0],
     rises |-> [b \in Ids |-> [k \in Kinds |-> 0]],
     delivered |-> [b \in Ids |-> [e \in 1..MaxAssign |-> [k \in Kinds |-> 0]]],
     flagFail |-> [b \in Ids |-> [e \in 1..MaxAssign |-> [k \in Kinds |-> FALSE]]],
     actBroadcasts |-> [b \in Ids |-> 0],
     recov |-> [b \in Ids |-> [e \in 1..MaxAssign |-> 0]],
     nsBroadcasts |-> [b \in Ids |-> [e \in 1..MaxAssign |-> 0]],
     nsNotifies |-> [b \in Ids |-> [e \in 1..MaxAssign |-> 0]]]

(* ------------------- KYC records and technician profiles --------------- *)
\* Technicians, bank account numbers as submitted (BadAccount fails the
\* 9-18 digits pattern), and the reasons an admin gives; NONE is null or an
\* absent string.
Techs == {1, 2}
Accounts == {11, 12}
BadAccount == 0
NONE == "null"
Reasons == {"unreadable"}

\* A TechnicianKyc document at the schema's defaults; present = FALSE stands
\* for no document of that technician.  Document numbers, uploads and dates
\* are left out.  No path accountNumberHash is in the schema.
NewKyc ==
    [present |-> TRUE,
     verificationStatus |-> "pending", kycVerified |-> FALSE, rejectionReason |-> NONE,
     accountNumber |-> NULL, accountNumberHash |-> NULL,
     bankVerified |-> FALSE, bankUpdateRequired |-> FALSE,
     bankVerificationStatus |-> "pending", bankRejectionReason |-> NONE]

NoKyc == [NewKyc EXCEPT !.present = FALSE]

\* The fields of a TechnicianProfile the controllers read or write.
NewProfile == [workStatus |-> "pending", isOnline |-> FALSE, trainingCompleted |-> FALSE]

\* The last HTTP response, and the last call of a notification helper.
NoRes == [op |-> "none", tech |-> NULL, code |-> 0]
NoCall == [fn |-> "none"]

InitKyc ==
    /\ kycs = [p \in Techs |-> NoKyc]
    /\ profiles = [p \in Techs |-> NewProfile]
    /\ strictQuery = FALSE
    /\ res = NoRes

InitCall == call = NoCall

Init ==
    /\ \E st \in [Ids -> {"scheduled", "requested"}] :
           bookings = [b \in Ids |-> NewBooking(st[b], DueAtOf(b))]
    /\ clock = 0
    /\ ticks = [t \in Slots |-> IdleTick]
    /\ ghost = InitGhost
    /\ started = 0
    /\ failures = 0
    /\ InitKyc
    /\ InitCall

(* ------------------------- starting a tick ---------------------------- *)
\* A callback that has returned leaves its log in the slot until the slot
\* is cleared; nothing else moves in between, so the log is read as the
\* callback left it.
NoneDone == \A t \in Slots : ticks[t].pc # "done"

FreeSlot(t) ==
    /\ ticks[t].pc = "idle"
    /\ \A u \in Slots : u < t => ticks[u].pc # "idle"

\* cron fires: now = new Date(), then the find(); an empty batch returns.
StartTick(t, job) ==
    /\ NoneDone
    /\ FreeSlot(t)
    /\ LET batch == Query(job, bookings, clock, 1)
       IN IF batch = <<>>
          THEN UNCHANGED <<ticks, started>>
          ELSE /\ started < MaxTicks
               /\ started' = started + 1
               /\ ticks' = [ticks EXCEPT ![t] =
                              [IdleTick EXCEPT !.job = job, !.now = clock,
                                               !.batch = batch, !.i = 1,
                                               !.pc = FirstPc(job)]]
    /\ UNCHANGED <<bookings, clock, ghost, failures, kycVars, call>>

\* A tick whose find() rejected, as the outer catch leaves it.
AbortedTick(job, now) ==
    [IdleTick EXCEPT !.job = job, !.now = now, !.err = TRUE, !.pc = "done"]

\* the find() rejects part-way: documents it had matched are already written.
StartTickFailDirty(t, job) ==
    /\ NoneDone
    /\ FreeSlot(t)
    /\ CanFail
    /\ failures' = failures + 1
    /\ ticks' = [ticks EXCEPT ![t] = AbortedTick(job, clock)]
    /\ bookings' = [b \in Ids |->
                      IF Select(job, bookings[b], clock)
                      THEN [bookings[b] EXCEPT !.status = "requested"]
                      ELSE bookings[b]]
    /\ UNCHANGED <<clock, ghost, started, kycVars, call>>

\* the find() rejects: the outer catch logs and the tick ends.
StartTickFail(t, job) ==
    /\ NoneDone
    /\ FreeSlot(t)
    /\ CanFail
    /\ failures' = failures + 1
    /\ ticks' = [ticks EXCEPT ![t] = AbortedTick(job, clock)]
    /\ UNCHANGED <<bookings, clock, ghost, started, kycVars, call>>

\* the callback has returned: the slot is free again.
Finish(t) ==
    /\ ticks[t].pc = "done"
    /\ ticks' = [ticks EXCEPT ![t] = IdleTick]
    /\ UNCHANGED <<bookings, clock, ghost, started, failures, kycVars, call>>

\* the process is stopped while the callback rests on an await: the tick is
\* abandoned where it stands.
Abandon(t) ==
    /\ NoneDone
    /\ ticks[t].pc \notin {"idle", "done"}
    /\ ticks' = [ticks EXCEPT ![t] = IdleTick]
    /\ UNCHANGED <<bookings, clock, ghost, started, failures, kycVars, call>>

(* ------------------------- activation job ----------------------------- *)
ActUpdate(t) ==
    /\ NoneDone
    /\ ticks[t].pc = "act_update"
    /\ LET b == Cur(t).id
           hit == ActivateFilter(bookings[b])
       IN /\ bookings' = IF hit THEN [bookings EXCEPT ![b] = ActivateSet(@)]
                         ELSE bookings
          /\ ticks' = [ticks EXCEPT ![t].pc = "act_broadcast",
                         ![t].log[b].upd = IF hit THEN "match" ELSE "nomatch"]
    /\ UNCHANGED <<clock, ghost, started, failures, kycVars, call>>

\* the updateOne() rejects, and the loop body goes on to the broadcast
ActUpdateThrowOn(t) ==
    /\ NoneDone
    /\ ticks[t].pc = "act_update"
    /\ CanFail
    /\ failures' = failures + 1
    /\ LET b == Cur(t).id
       IN ticks' = [ticks EXCEPT ![t].pc = "act_broadcast", ![t].err = TRUE,
                                 ![t].log[b].upd = "throw"]
    /\ UNCHANGED <<bookings, clock, ghost, started, kycVars, call>>

ActUpdateThrow(t) ==
    /\ NoneDone
    /\ ticks[t].pc = "act_update"
    /\ CanFail
    /\ failures' = failures + 1
    /\ LET b == Cur(t).id
       IN ticks' = [ticks EXCEPT ![t] =
                      NextBooking([@ EXCEPT !.err = TRUE, !.log[b].upd = "throw"])]
    /\ UNCHANGED <<bookings, clock, ghost, started, kycVars, call>>

ActBroadcast(t) ==
    /\ NoneDone
    /\ ticks[t].pc = "act_broadcast"
    /\ LET b == Cur(t).id
       IN /\ ticks' = [ticks EXCEPT ![t] =
                         NextBooking([@ EXCEPT !.log[b].mb = @ + 1])]
          /\ ghost' = [ghost EXCEPT !.actBroadcasts[b] = @ + 1]
    /\ UNCHANGED <<bookings, clock, started, failures, kycVars, call>>

ActBroadcastThrow(t) ==
    /\ NoneDone
    /\ ticks[t].pc = "act_broadcast"
    /\ CanFail
    /\ failures' = failures + 1
    /\ LET b == Cur(t).id
       IN /\ ticks' = [ticks EXCEPT ![t] =
                         NextBooking([@ EXCEPT !.err = TRUE, !.log[b].mb = @ + 1,
                                               !.log[b].mbThrew = TRUE])]
          /\ ghost' = [ghost EXCEPT !.actBroadcasts[b] = @ + 1]
    /\ UNCHANGED <<bookings, clock, started, kycVars, call>>

(* --------------------------- reminder jobs ---------------------------- *)
\* Ghost: the false -> true changes of the flags between two stored documents.
Risen(old, new, counts) ==
    [k \in Kinds |-> IF ~old.remindersSent[k] /\ new.remindersSent[k]
                     THEN counts[k] + 1 ELSE counts[k]]

\* sendScheduledReminder(booking, kind, io) on the selected document: without
\* a technician it returns a failure at once, otherwise it delivers.
RemSend(t) ==
    /\ NoneDone
    /\ ticks[t].pc = "rem_send"
    /\ LET b == Cur(t).id
           e == Cur(t).technicianId
           k == ticks[t].job
       IN IF e = NULL
          THEN /\ ticks' = [ticks EXCEPT ![t].pc = "rem_flag"]
               /\ UNCHANGED ghost
          ELSE /\ ticks' = [ticks EXCEPT ![t].pc = "rem_flag",
                                         ![t].log[b].sent = @ + 1]
               /\ ghost' = [ghost EXCEPT !.delivered[b][e][k] = @ + 1]
    /\ UNCHANGED <<bookings, clock, started, failures, kycVars, call>>

\* a caller that reads the result and leaves the flag of a failed delivery
RemSendFailSkip(t) ==
    /\ NoneDone
    /\ ticks[t].pc = "rem_send"
    /\ Cur(t).technicianId # NULL
    /\ CanFail
    /\ failures' = failures + 1
    /\ ticks' = [ticks EXCEPT ![t] = NextBooking(@)]
    /\ UNCHANGED <<bookings, clock, ghost, started, kycVars, call>>

\* the technician lookup or the push rejects: sendScheduledReminder catches
\* it and returns a failure; the caller goes on to the flag.
RemSendFail(t) ==
    /\ NoneDone
    /\ ticks[t].pc = "rem_send"
    /\ Cur(t).technicianId # NULL
    /\ CanFail
    /\ failures' = failures + 1
    /\ ticks' = [ticks EXCEPT ![t].pc = "rem_flag"]
    /\ UNCHANGED <<bookings, clock, ghost, started, kycVars, call>>

\* the push or the SMS is awaited and never settles: sendScheduledReminder
\* does not return, and the callback rests on its await.
RemSendStuck(t) ==
    /\ NoneDone
    /\ ticks[t].pc = "rem_send"
    /\ Cur(t).technicianId # NULL
    /\ ticks' = [ticks EXCEPT ![t].pc = "rem_stuck"]
    /\ UNCHANGED <<bookings, clock, ghost, started, failures, kycVars, call>>

\* updateOne({_id}, {$set: {"remindersSent.<kind>": true}})
RemFlag(t) ==
    /\ NoneDone
    /\ ticks[t].pc = "rem_flag"
    /\ LET b == Cur(t).id
           new == ReminderSet(bookings[b], ticks[t].job)
       IN /\ bookings' = [bookings EXCEPT ![b] = new]
          /\ ghost' = [ghost EXCEPT !.rises[b] = Risen(bookings[b], new, @)]
          /\ ticks' = [ticks EXCEPT ![t] =
                         NextBooking([@ EXCEPT !.log[b].upd = "match"])]
    /\ UNCHANGED <<clock, started, failures, kycVars, call>>

RemFlagThrow(t) ==
    /\ NoneDone
    /\ ticks[t].pc = "rem_flag"
    /\ CanFail
    /\ failures' = failures + 1
    /\ LET b == Cur(t).id
           e == Cur(t).technicianId
           k == ticks[t].job
       IN /\ ticks' = [ticks EXCEPT ![t] =
                         NextBooking([@ EXCEPT !.err = TRUE, !.log[b].upd = "throw"])]
          /\ ghost' = IF e = NULL THEN ghost
                      ELSE [ghost EXCEPT !.flagFail[b][e][k] = TRUE]
    /\ UNCHANGED <<bookings, clock, started, kycVars, call>>

(* ---------------------------- no-show job ----------------------------- *)
\* findOneAndUpdate(filter, $set, {new: true}); no match: continue.
NsUpdate(t) ==
    /\ NoneDone
    /\ ticks[t].pc = "ns_update"
    /\ LET b == Cur(t).id
           old == bookings[b]
           new == NoShowSet(old, ticks[t].now)
           prev == old.technicianId
       IN IF NoShowFilter(old)
          THEN /\ bookings' = [bookings EXCEPT ![b] = new]
               /\ ticks' = [ticks EXCEPT ![t].pc = "ns_broadcast",
                              ![t].log[b].upd = "match",
                              ![t].log[b].prev = prev,
                              ![t].log[b].doc = new]
               /\ ghost' = [ghost EXCEPT
                              !.rises[b] = Risen(old, new, [k \in Kinds |-> 0]),
                              !.recov[b] = IF prev = NULL THEN @
                                           ELSE [@ EXCEPT ![prev] = @ + 1]]
          ELSE /\ ticks' = [ticks EXCEPT ![t] =
                              NextBooking([@ EXCEPT !.log[b].upd = "nomatch"])]
               /\ UNCHANGED <<bookings, ghost>>
    /\ UNCHANGED <<clock, started, failures, kycVars, call>>

NsUpdateThrow(t) ==
    /\ NoneDone
    /\ ticks[t].pc = "ns_update"
    /\ CanFail
    /\ failures' = failures + 1
    /\ LET b == Cur(t).id
       IN ticks' = [ticks EXCEPT ![t] =
                      NextBooking([@ EXCEPT !.err = TRUE, !.log[b].upd = "throw"])]
    /\ UNCHANGED <<bookings, clock, ghost, started, kycVars, call>>

\* Ghost: one more call counted for the assignment the tick unassigned.
Counted(counts, prev) ==
    IF prev = NULL THEN counts ELSE [counts EXCEPT ![prev] = @ + 1]

\* matchAndBroadcastBooking(booking._id, io)
NsBroadcast(t) ==
    /\ NoneDone
    /\ ticks[t].pc = "ns_broadcast"
    /\ LET b == Cur(t).id
       IN /\ ticks' = [ticks EXCEPT ![t].pc = "ns_notify", ![t].log[b].mb = @ + 1]
          /\ ghost' = [ghost EXCEPT
                         !.nsBroadcasts[b] = Counted(@, ticks[t].log[b].prev)]
    /\ UNCHANGED <<bookings, clock, started, failures, kycVars, call>>

\* the re-broadcast throws and the transition is rolled back
NsBroadcastThrowRevert(t) ==
    /\ NoneDone
    /\ ticks[t].pc = "ns_broadcast"
    /\ CanFail
    /\ failures' = failures + 1
    /\ LET b == Cur(t).id
       IN /\ ticks' = [ticks EXCEPT ![t] =
                         NextBooking([@ EXCEPT !.err = TRUE, !.log[b].mb = @ + 1,
                                               !.log[b].mbThrew = TRUE])]
          /\ ghost' = [ghost EXCEPT
                         !.nsBroadcasts[b] = Counted(@, ticks[t].log[b].prev)]
          /\ bookings' = [bookings EXCEPT ![b].status = "accepted",
                            ![b].technicianId = ticks[t].log[b].prev,
                            ![b].noShowAt = NULL]
    /\ UNCHANGED <<clock, started, kycVars, call>>

\* the re-broadcast rejects, and the loop body goes on to the notification
NsBroadcastThrowNotify(t) ==
    /\ NoneDone
    /\ ticks[t].pc = "ns_broadcast"
    /\ CanFail
    /\ failures' = failures + 1
    /\ LET b == Cur(t).id
       IN /\ ticks' = [ticks EXCEPT ![t].pc = "ns_notify", ![t].err = TRUE,
                                    ![t].log[b].mb = @ + 1,
                                    ![t].log[b].mbThrew = TRUE]
          /\ ghost' = [ghost EXCEPT
                         !.nsBroadcasts[b] = Counted(@, ticks[t].log[b].prev)]
    /\ UNCHANGED <<bookings, clock, started, kycVars, call>>

NsBroadcastThrow(t) ==
    /\ NoneDone
    /\ ticks[t].pc = "ns_broadcast"
    /\ CanFail
    /\ failures' = failures + 1
    /\ LET b == Cur(t).id
       IN /\ ticks' = [ticks EXCEPT ![t] =
                         NextBooking([@ EXCEPT !.err = TRUE, !.log[b].mb = @ + 1,
                                               !.log[b].mbThrew = TRUE])]
          /\ ghost' = [ghost EXCEPT
                         !.nsBroadcasts[b] = Counted(@, ticks[t].log[b].prev)]
    /\ UNCHANGED <<bookings, clock, started, kycVars, call>>

\* notifyCustomerOfRebroadcast(booking, io): it catches whatever it meets.
NsNotify(t) ==
    /\ NoneDone
    /\ ticks[t].pc = "ns_notify"
    /\ LET b == Cur(t).id
       IN /\ ticks' = [ticks EXCEPT ![t] =
                         NextBooking([@ EXCEPT !.log[b].nt = @ + 1])]
          /\ ghost' = [ghost EXCEPT
                         !.nsNotifies[b] = Counted(@, ticks[t].log[b].prev)]
    /\ UNCHANGED <<bookings, clock, started, failures, kycVars, call>>

\* the customer lookup or the SMS rejects inside notifyCustomerOfRebroadcast:
\* it logs and returns.
NsNotifyFail(t) ==
    /\ NoneDone
    /\ ticks[t].pc = "ns_notify"
    /\ CanFail
    /\ failures' = failures + 1
    /\ LET b == Cur(t).id
       IN /\ ticks' = [ticks EXCEPT ![t] =
                         NextBooking([@ EXCEPT !.log[b].nt = @ + 1,
                                               !.log[b].ntFailed = TRUE])]
          /\ ghost' = [ghost EXCEPT
                         !.nsNotifies[b] = Counted(@, ticks[t].log[b].prev)]
    /\ UNCHANGED <<bookings, clock, started, kycVars, call>>

(* --------------------------- environment ------------------------------ *)
\* Acceptance flow: a technician takes a requested booking.
Accept(b) ==
    /\ NoneDone
    /\ bookings[b].status = "requested"
    /\ ghost.epoch[b] < MaxAssign
    /\ bookings' = [bookings EXCEPT ![b].status = "accepted",
                      ![b].technicianId = ghost.epoch[b] + 1,
                      ![b].assignedAt = clock,
                      ![b].noShowAt = NULL]
    /\ ghost' = [ghost EXCEPT !.epoch[b] = @ + 1]
    /\ UNCHANGED <<clock, ticks, started, failures, kycVars, call>>

\* Execution flow: the assigned technician sets out.
StartWork(b) ==
    /\ NoneDone
    /\ bookings[b].status = "accepted"
    /\ bookings' = [bookings EXCEPT ![b].status = "on_the_way"]
    /\ UNCHANGED <<clock, ticks, ghost, started, failures, kycVars, call>>

\* Execution flow: the technician arrives, works and finishes.
LaterStatus == {"on_the_way", "reached", "in_progress", "completed"}

Progress(b) ==
    /\ NoneDone
    /\ bookings[b].status \in {"on_the_way", "reached", "in_progress"}
    /\ bookings' = [bookings EXCEPT ![b].status =
                      CASE @ = "on_the_way" -> "reached"
                        [] @ = "reached" -> "in_progress"
                        [] @ = "in_progress" -> "completed"]
    /\ UNCHANGED <<clock, ticks, ghost, started, failures, kycVars, call>>

Advance ==
    /\ NoneDone
    /\ \E c \in Instants : c > clock /\ clock' = c
    /\ UNCHANGED <<bookings, ticks, ghost, started, failures, kycVars, call>>

ActStep ==
    \/ \E t \in Slots : StartTick(t, "activate")
    \/ \E t \in Slots : StartTickFail(t, "activate")
    \/ \E t \in Slots : ActUpdate(t)
    \/ \E t \in Slots : ActUpdateThrow(t)
    \/ \E t \in Slots : ActBroadcast(t)
    \/ \E t \in Slots : ActBroadcastThrow(t)

RemStep ==
    \/ \E t \in Slots, k \in Kinds : StartTick(t, k)
    \/ \E t \in Slots, k \in Kinds : StartTickFail(t, k)
    \/ \E t \in Slots : RemSend(t)
    \/ \E t \in Slots : RemSendFail(t)
    \/ \E t \in Slots : RemFlag(t)
    \/ \E t \in Slots : RemFlagThrow(t)

NsStep ==
    \/ \E t \in Slots : StartTick(t, "noshow")
    \/ \E t \in Slots : StartTickFail(t, "noshow")
    \/ \E t \in Slots : NsUpdate(t)
    \/ \E t \in Slots : NsUpdateThrow(t)
    \/ \E t \in Slots : NsBroadcast(t)
    \/ \E t \in Slots : NsBroadcastThrow(t)
    \/ \E t \in Slots : NsNotify(t)
    \/ \E t \in Slots : NsNotifyFail(t)

EnvStep ==
    \/ \E t \in Slots : Finish(t)
    \/ \E b \in Ids : Accept(b)
    \/ \E b \in Ids : StartWork(b)
    \/ Advance

FlowStep == \E b \in Ids : Progress(b)

\* The whole engine: the five jobs over bookings created scheduled or
\* already broadcast.
Next == ActStep \/ RemStep \/ NsStep \/ EnvStep \/ FlowStep

Spec == Init /\ [][Next]_vars

\* The activation job alone with the flows around it.
SpecActivation == Init /\ [][ActStep \/ EnvStep]_vars

\* The same jobs over a store with one open booking beside a completed one.
InitSolo ==
    /\ bookings = [b \in Ids |-> NewBooking(IF b = 1 THEN "requested" ELSE "completed", DueAtOf(b))]
    /\ clock = 0
    /\ ticks = [t \in Slots |-> IdleTick]
    /\ ghost = InitGhost
    /\ started = 0
    /\ failures = 0
    /\ InitKyc
    /\ InitCall

SpecSolo == InitSolo /\ [][RemStep \/ NsStep \/ EnvStep]_vars

\* The no-show job against the execution flow, over the same store.
SpecRace == InitSolo /\ [][NsStep \/ EnvStep \/ FlowStep]_vars

\* The no-show job ticking for ever without a store failure: cron fires it
\* every two minutes and every awaited call returns.
NoShowRun ==
    \/ \E t \in Slots : StartTick(t, "noshow")
    \/ \E t \in Slots : NsUpdate(t)
    \/ \E t \in Slots : NsBroadcast(t)
    \/ \E t \in Slots : NsNotify(t)
    \/ \E t \in Slots : Finish(t)
    \/ \E b \in Ids : Accept(b)
    \/ Advance

NoShowFair ==
    \A t \in Slots :
        /\ WF_vars(StartTick(t, "noshow"))
        /\ WF_vars(NsUpdate(t))
        /\ WF_vars(NsBroadcast(t))
        /\ WF_vars(NsNotify(t))
        /\ WF_vars(Finish(t))

SpecNoShowFair == InitSolo /\ [][NoShowRun]_vars /\ NoShowFair

\* The activation job ticking for ever; a find() may reject, every other
\* awaited call returns.
ActivationRun ==
    \/ \E t \in Slots : StartTick(t, "activate")
    \/ \E t \in Slots : StartTickFail(t, "activate")
    \/ \E t \in Slots : ActUpdate(t)
    \/ \E t \in Slots : ActBroadcast(t)
    \/ \E t \in Slots : Finish(t)
    \/ Advance

ActivationFair ==
    \A t \in Slots :
        /\ WF_vars(StartTick(t, "activate"))
        /\ WF_vars(ActUpdate(t))
        /\ WF_vars(ActBroadcast(t))
        /\ WF_vars(Finish(t))

SpecActivationFair == Init /\ [][ActivationRun]_vars /\ ActivationFair

\* The five jobs at one instant over a store whose bookings all start at
\* DueAt and are all waiting for activation, or all assigned: every query
\* that selects one booking selects them all.
InitBatch ==
    /\ \E st \in {"scheduled", "accepted"} :
           /\ bookings = [b \in Ids |->
                            IF st = "accepted"
                            THEN [NewBooking(st, DueAt) EXCEPT !.technicianId = 1,
                                                               !.assignedAt = 0]
                            ELSE NewBooking(st, DueAt)]
           /\ ghost = [InitGhost EXCEPT
                          !.epoch = [b \in Ids |-> IF st = "accepted" THEN 1 ELSE 0]]
    /\ clock \in Instants \ {0}
    /\ ticks = [t \in Slots |-> IdleTick]
    /\ started = 0
    /\ failures = 0
    /\ InitKyc
    /\ InitCall

SpecBatch ==
    InitBatch /\ [][ActStep \/ RemStep \/ NsStep \/ \E t \in Slots : Finish(t)]_vars

\* The reminder jobs ticking for ever over assigned bookings; a delivery
\* channel may never answer, every store call returns.
ReminderRun ==
    \/ \E t \in Slots, k \in Kinds : StartTick(t, k)
    \/ \E t \in Slots : RemSend(t)
    \/ \E t \in Slots : RemSendStuck(t)
    \/ \E t \in Slots : RemFlag(t)
    \/ \E t \in Slots : Finish(t)
    \/ Advance

ReminderFair ==
    \A t \in Slots :
        /\ \A k \in Kinds : WF_vars(StartTick(t, k))
        /\ WF_vars(RemSend(t))
        /\ WF_vars(RemFlag(t))
        /\ WF_vars(Finish(t))

InitReminders ==
    /\ InitBatch
    /\ \A b \in Ids : bookings[b].status = "accepted"

SpecReminderFair == InitReminders /\ [][ReminderRun]_vars /\ ReminderFair

\* The activation and the no-show job ticking for ever on some instance
\* without failure, while an instance may be stopped in the middle of a tick.
RestartRun ==
    \/ \E t \in Slots : StartTick(t, "activate")
    \/ \E t \in Slots : ActUpdate(t)
    \/ \E t \in Slots : ActBroadcast(t)
    \/ \E t \in Slots : StartTick(t, "noshow")
    \/ \E t \in Slots : NsUpdate(t)
    \/ \E t \in Slots : NsBroadcast(t)
    \/ \E t \in Slots : NsNotify(t)
    \/ \E t \in Slots : Finish(t)
    \/ \E t \in Slots : Abandon(t)
    \/ Advance

RestartFair ==
    \A t \in Slots :
        /\ WF_vars(StartTick(t, "activate"))
        /\ WF_vars(ActUpdate(t))
        /\ WF_vars(ActBroadcast(t))
        /\ WF_vars(StartTick(t, "noshow"))
        /\ WF_vars(NsUpdate(t))
        /\ WF_vars(NsBroadcast(t))
        /\ WF_vars(NsNotify(t))
        /\ WF_vars(Finish(t))

SpecRestartFair == InitBatch /\ [][RestartRun]_vars /\ RestartFair

\* The whole engine and the flows around it over one booking created
\* scheduled or already broadcast, beside bookings that are over.
InitOne ==
    /\ \E st \in {"scheduled", "requested"} :
           bookings = [b \in Ids |-> NewBooking(IF b = 1 THEN st ELSE "completed", DueAtOf(b))]
    /\ clock = 0
    /\ ticks = [t \in Slots |-> IdleTick]
    /\ ghost = InitGhost
    /\ started = 0
    /\ failures = 0
    /\ InitKyc
    /\ InitCall

SpecOne == InitOne /\ [][Next]_vars

(* ------------------- the selection of a reminder job ------------------ *)
\* The distances between now and a booking's start at which a window opens
\* or closes, and one millisecond outside each.
EdgeOffsets ==
    UNION {{WindowMin(k, 0) - 1, WindowMin(k, 0), WindowMax(k, 0), WindowMax(k, 0) + 1} :
           k \in Kinds}

\* The bookings whose start the selection is probed on; any others are over.
Probed == {b \in Ids : b <= 2}

\* A store of bookings broadcast or accepted, with any reminders sent, each
\* starting on or next to the edge of a window as seen from now.
InitSelect ==
    /\ clock = HOUR
    /\ \E st \in [Probed -> {"requested", "accepted"}],
          rs \in [Probed -> [Kinds -> BOOLEAN]],
          w \in [Probed -> EdgeOffsets] :
           bookings = [b \in Ids |->
                         IF b \in Probed
                         THEN [NewBooking(st[b], clock + w[b]) EXCEPT
                                 !.technicianId = IF st[b] = "accepted" THEN 1 ELSE NULL,
                                 !.assignedAt = IF st[b] = "accepted" THEN 0 ELSE NULL,
                                 !.remindersSent = rs[b]]
                         ELSE NewBooking("completed", DueAtOf(b))]
    /\ ticks = [t \in Slots |-> IdleTick]
    /\ ghost = InitGhost
    /\ started = 0
    /\ failures = 0
    /\ InitKyc
    /\ InitCall

\* A reminder job fires: now = new Date(), then the find(); the batch is kept
\* as found, empty or not.
Probe(t, k) ==
    /\ FreeSlot(t)
    /\ ticks' = [ticks EXCEPT ![t] =
                   [IdleTick EXCEPT !.job = k, !.now = clock,
                                    !.batch = Query(k, bookings, clock, 1),
                                    !.pc = "done"]]
    /\ UNCHANGED <<bookings, clock, ghost, started, failures, kycVars, call>>

SpecSelect == InitSelect /\ [][\E t \in Slots, k \in Kinds : Probe(t, k)]_vars

(* --------------------- one booking, jobs on cadence ------------------- *)
\* A cron pattern */n fires at the minutes divisible by n.
Due(job, now) ==
    LET m == now \div MIN
    IN CASE job = "activate" -> m % 5 = 0
         [] job = "h24" -> m % 15 = 0
         [] job = "h1" -> m % 5 = 0
         [] job = "min15" -> TRUE
         [] job = "noshow" -> m % 2 = 0

\* What a whole tick of a job, run without failure and alone, stores for one
\* booking.
Ran(job, bk, now) ==
    IF ~Select(job, bk, now) THEN bk
    ELSE CASE job = "activate" ->
                  (IF ActivateFilter(bk) THEN ActivateSet(bk) ELSE bk)
           [] job = "noshow" ->
                  (IF NoShowFilter(bk) THEN NoShowSet(bk, now) ELSE bk)
           [] OTHER -> ReminderSet(bk, job)

\* The jobs in the order initScheduledBookingCrons registers them.
JobOrder == <<"activate", "h24", "h1", "min15", "noshow">>

RECURSIVE RanAll(_, _, _)
RanAll(i, bk, now) ==
    IF i > Len(JobOrder) THEN bk
    ELSE RanAll(i + 1,
                IF Due(JobOrder[i], now) THEN Ran(JobOrder[i], bk, now) ELSE bk,
                now)

\* Ghost: the reminders the jobs due at `now` deliver for booking bk.
RECURSIVE SentAll(_, _, _, _)
SentAll(i, bk, now, counts) ==
    IF i > Len(JobOrder) THEN counts
    ELSE LET job == JobOrder[i]
             hit == Due(job, now) /\ job \in Kinds /\ Select(job, bk, now)
                        /\ bk.technicianId # NULL
         IN SentAll(i + 1,
                    IF Due(job, now) THEN Ran(job, bk, now) ELSE bk,
                    now,
                    IF hit THEN [counts EXCEPT ![bk.technicianId][job] = @ + 1]
                    ELSE counts)

InitLifecycle ==
    /\ bookings = [b \in Ids |-> NewBooking(IF b = 1 THEN "scheduled" ELSE "completed", DueAtOf(b))]
    /\ clock = 0
    /\ ticks = [t \in Slots |-> IdleTick]
    /\ ghost = InitGhost
    /\ started = 0
    /\ failures = 0
    /\ InitKyc
    /\ InitCall

\* The next minute begins and every job due at it runs to its end.
LcMinute ==
    /\ clock < DueAt
    /\ clock' = clock + MIN
    /\ bookings' = [b \in Ids |-> RanAll(1, bookings[b], clock')]
    /\ ghost' = [ghost EXCEPT
                   !.delivered = [b \in Ids |-> SentAll(1, bookings[b], clock', @[b])]]
    /\ UNCHANGED <<ticks, started, failures, kycVars, call>>

\* The acceptance flow; the technician then stays assigned.
LcAccept(b) ==
    /\ Accept(b)

SpecLifecycle == InitLifecycle /\ [][LcMinute \/ \E b \in Ids : LcAccept(b)]_vars

(* ------------------- the two notification helpers --------------------- *)
\* What a call meets: whether the booking carries a technician (a customer),
\* the kind asked for, whether a socket server was passed, what the lookup of
\* the recipient gives, and which of the collaborators rejects or throws.
ReminderInputs ==
    [technician : BOOLEAN,
     type : Kinds \cup {"other"},
     io : BOOLEAN,
     lookup : {"phone", "nophone", "throws"},
     push : {"ok", "throws"},
     socket : {"ok", "throws"},
     sms : {"ok", "throws"}]

NotifyInputs ==
    [customer : BOOLEAN,
     io : BOOLEAN,
     emit : {"ok", "throws"},
     lookup : {"mobile", "nomobile", "throws"},
     sms : {"ok", "throws"}]

\* What a call gave back: whether it raised to its caller, the result it
\* returned, and the collaborators it called, in order.
Returns(ok, tr) == [raised |-> FALSE, success |-> ok, trace |-> tr]

\* a body with no catch around it
Uncaught(tr) == [raised |-> TRUE, success |-> FALSE, trace |-> tr]

\* the outer catch of either helper: it logs and returns
Caught(tr) == Returns(FALSE, tr)

\* the try around the sendSms() of sendScheduledReminder rethrowing
SmsAttemptRethrow(in, tr) ==
    IF in.lookup = "phone" /\ in.type \in {"h1", "min15"}
    THEN IF in.sms = "throws"
         THEN Caught(Append(tr, "sms"))
         ELSE Returns(TRUE, Append(tr, "sms"))
    ELSE Returns(TRUE, tr)

\* if (techPhone && (type === "h1" || type === "min15")) try { sendSms }
\* catch { warn }; return { success: true }
SmsAttempt(in, tr) ==
    IF in.lookup = "phone" /\ in.type \in {"h1", "min15"}
    THEN Returns(TRUE, Append(tr, "sms"))
    ELSE Returns(TRUE, tr)

\* if (io) sendSocketNotification(...), inside the outer try only
SocketStep(in, tr) ==
    IF ~in.io THEN SmsAttempt(in, tr)
    ELSE IF in.socket = "throws" THEN Caught(Append(tr, "socket"))
    ELSE SmsAttempt(in, Append(tr, "socket"))

sendScheduledReminder(in) ==
    IF ~in.technician THEN Returns(FALSE, <<>>)
    ELSE IF in.lookup = "throws" THEN Caught(<<"lookup">>)
    ELSE IF in.type \notin Kinds THEN Returns(FALSE, <<"lookup">>)
    ELSE IF in.push = "throws" THEN Caught(<<"lookup", "push">>)
    ELSE SocketStep(in, <<"lookup", "push">>)

\* try { User.findById(); if (mobileNumber) sendSms } catch { warn }
CustomerSms(in, tr) ==
    IF in.lookup = "mobile"
    THEN Returns(TRUE, tr \o <<"lookup", "sms">>)
    ELSE Returns(TRUE, Append(tr, "lookup"))

\* a recipient step that runs without a customer too
NotifyAnyway(in) ==
    IF in.io
    THEN IF in.emit = "throws" THEN Caught(<<"socket">>)
         ELSE CustomerSms(in, <<"socket">>)
    ELSE CustomerSms(in, <<>>)

\* notifyCustomerOfRebroadcast returns nothing; success here says that it
\* came to its last line.
notifyCustomerOfRebroadcast(in) ==
    IF ~in.customer THEN Returns(FALSE, <<>>)
    ELSE IF in.io
         THEN IF in.emit = "throws" THEN Caught(<<"socket">>)
              ELSE CustomerSms(in, <<"socket">>)
         ELSE CustomerSms(in, <<>>)

\* One call of each helper, on any input.
CallReminder(in) ==
    /\ call' = [fn |-> "sendScheduledReminder", in |-> in,
                out |-> sendScheduledReminder(in)]
    /\ UNCHANGED <<engine, kycVars>>

CallNotify(in) ==
    /\ call' = [fn |-> "notifyCustomerOfRebroadcast", in |-> in,
                out |-> notifyCustomerOfRebroadcast(in)]
    /\ UNCHANGED <<engine, kycVars>>

SpecCalls ==
    InitSolo /\ [][\/ \E in \in ReminderInputs : CallReminder(in)
                  \/ \E in \in NotifyInputs : CallNotify(in)]_vars

\* The reminder jobs calling sendScheduledReminder for the booking at hand:
\* const result = await sendScheduledReminder(booking, kind, io), and the
\* flag update behind it; a raise would go to the catch of the loop body.
RemCall(t, in) ==
    /\ NoneDone
    /\ ticks[t].pc = "rem_send"
    /\ in.technician = (Cur(t).technicianId # NULL)
    /\ in.type = ticks[t].job
    /\ LET b == Cur(t).id
           e == Cur(t).technicianId
           k == ticks[t].job
           out == sendScheduledReminder(in)
       IN /\ call' = [fn |-> "sendScheduledReminder", in |-> in, out |-> out]
          /\ ticks' = IF out.raised
                      THEN [ticks EXCEPT ![t] = NextBooking([@ EXCEPT !.err = TRUE])]
                      ELSE [ticks EXCEPT ![t].pc = "rem_flag",
                                         ![t].log[b].sent =
                                             IF out.success THEN @ + 1 ELSE @]
          /\ ghost' = IF out.success
                      THEN [ghost EXCEPT !.delivered[b][e][k] = @ + 1]
                      ELSE ghost
    /\ UNCHANGED <<bookings, clock, started, failures, kycVars>>

\* The no-show job calling notifyCustomerOfRebroadcast behind the returned
\* re-broadcast: await notifyCustomerOfRebroadcast(updated, io).
NsNotifyCall(t, in) ==
    /\ NoneDone
    /\ ticks[t].pc = "ns_notify"
    /\ LET b == Cur(t).id
           out == notifyCustomerOfRebroadcast(in)
       IN /\ call' = [fn |-> "notifyCustomerOfRebroadcast", in |-> in, out |-> out]
          /\ ticks' = [ticks EXCEPT ![t] =
                         NextBooking([@ EXCEPT !.err = @ \/ out.raised,
                                               !.log[b].nt = @ + 1,
                                               !.log[b].ntFailed = ~out.success])]
          /\ ghost' = [ghost EXCEPT
                         !.nsNotifies[b] = Counted(@, ticks[t].log[b].prev)]
    /\ UNCHANGED <<bookings, clock, started, failures, kycVars>>

\* One callback at a time: a tick starts when none is in flight.
JobCalls ==
    \/ \E t \in Slots, k \in Kinds \cup {"noshow"} :
           (\A u \in Slots : ticks[u].pc = "idle") /\ StartTick(t, k)
    \/ \E t \in Slots, in \in ReminderInputs : RemCall(t, in)
    \/ \E t \in Slots : RemFlag(t)
    \/ \E t \in Slots : NsUpdate(t)
    \/ \E t \in Slots : NsBroadcast(t)
    \/ \E t \in Slots, in \in NotifyInputs : NsNotifyCall(t, in)
    \/ \E t \in Slots : Finish(t)

SpecJobCalls == InitReminders /\ [][JobCalls]_vars

(* -------------------------- KYC controllers --------------------------- *)
\* res.status(code).json(...), for the technician the request names
Respond(op, p, code) == res' = [op |-> op, tech |-> p, code |-> code]

\* findOneAndUpdate(..., { upsert: true }): the stored document, or a new one
\* at the schema's defaults
Upserted(k) == IF k.present THEN k ELSE NewKyc

\* submitTechnicianKyc: the update object
KycSubmitted(k) ==
    [k EXCEPT !.verificationStatus = "pending", !.rejectionReason = NONE,
              !.kycVerified = FALSE]

\* submitTechnicianKyc, for the profile id of the session (NULL: none)
SubmitTechnicianKyc(p) ==
    /\ IF p = NULL
       THEN /\ Respond("submitTechnicianKyc", p, 401)
            /\ UNCHANGED kycs
       ELSE /\ kycs' = [kycs EXCEPT ![p] = KycSubmitted(Upserted(@))]
            /\ Respond("submitTechnicianKyc", p, 200)
    /\ UNCHANGED <<engine, profiles, strictQuery, call>>

\* validateBankDetails, on the account number: absent, or 9 to 18 digits
ValidateBankDetails(acct) == acct = NULL \/ acct \in Accounts

\* crypto.createHash("sha256").update(...).digest("hex"): one digest per
\* number, and none of them a number
Sha256(acct) == acct + 1000

\* TechnicianKyc.findOne({ "bankDetails.accountNumberHash": hash,
\* technicianId: { $ne: p } }).  The path is not in the schema: a build with
\* strictQuery strips it from the filter, and any document of another
\* technician matches; otherwise the filter is sent as written.
DuplicateAccount(p, acct) ==
    \E q \in Techs \ {p} :
        /\ kycs[q].present
        /\ strictQuery \/ kycs[q].accountNumberHash = Sha256(acct)

\* submitTechnicianBankDetails: the update object; bankDetails is replaced
\* whole by the processed fields
BankSubmitted(k, acct) ==
    [k EXCEPT !.accountNumber = acct, !.accountNumberHash = NULL,
              !.bankVerificationStatus = "pending", !.bankRejectionReason = NONE,
              !.bankVerified = FALSE, !.bankUpdateRequired = FALSE]

SubmitTechnicianBankDetails(p, acct) ==
    /\ IF p = NULL
       THEN /\ Respond("submitTechnicianBankDetails", p, 401)
            /\ UNCHANGED kycs
       ELSE IF ~ValidateBankDetails(acct)
       THEN /\ Respond("submitTechnicianBankDetails", p, 400)
            /\ UNCHANGED kycs
       ELSE IF acct # NULL /\ DuplicateAccount(p, acct)
       THEN /\ Respond("submitTechnicianBankDetails", p, 400)
            /\ UNCHANGED kycs
       ELSE /\ kycs' = [kycs EXCEPT ![p] = BankSubmitted(Upserted(@), acct)]
            /\ Respond("submitTechnicianBankDetails", p, 200)
    /\ UNCHANGED <<engine, profiles, strictQuery, call>>

\* a verdict that leaves kycVerified as it was
KycVerdictKeepFlag(k, status, reason) ==
    [k EXCEPT !.verificationStatus = status,
              !.rejectionReason = IF status = "rejected" THEN reason ELSE NONE]

\* verifyTechnicianKyc: the verdict on the document
KycVerdict(k, status, reason) ==
    [k EXCEPT !.verificationStatus = status,
              !.kycVerified = (status = "approved"),
              !.rejectionReason = IF status = "rejected" THEN reason ELSE NONE]

\* an approval that leaves bankVerificationStatus as it was
BankOnVerdictKeepStatus(k, status) ==
    IF status = "approved"
    THEN IF k.accountNumber # NULL
         THEN [k EXCEPT !.bankVerified = TRUE, !.bankUpdateRequired = FALSE,
                        !.bankRejectionReason = NONE]
         ELSE k
    ELSE [k EXCEPT !.bankVerified = FALSE, !.bankUpdateRequired = TRUE,
                   !.bankVerificationStatus = "pending"]

\* verifyTechnicianKyc: what the verdict does to the bank fields
BankOnVerdict(k, status) ==
    IF status = "approved"
    THEN IF k.accountNumber # NULL
         THEN [k EXCEPT !.bankVerified = TRUE, !.bankUpdateRequired = FALSE,
                        !.bankVerificationStatus = "approved",
                        !.bankRejectionReason = NONE]
         ELSE k
    ELSE [k EXCEPT !.bankVerified = FALSE, !.bankUpdateRequired = TRUE,
                   !.bankVerificationStatus = "pending"]

\* verifyTechnicianKyc: TechnicianProfile.findByIdAndUpdate(...)
ProfileOnVerdict(pr, status) ==
    IF status = "approved"
    THEN [pr EXCEPT !.workStatus = "approved"]
    ELSE [pr EXCEPT !.workStatus = "suspended", !.isOnline = FALSE]

\* verifyTechnicianKyc, by an admin or not, for the technician, status and
\* reason of the body (NULL, NONE: absent)
VerifyTechnicianKyc(admin, p, status, reason) ==
    /\ IF ~admin
       THEN /\ Respond("verifyTechnicianKyc", p, 403)
            /\ UNCHANGED <<kycs, profiles>>
       ELSE IF p = NULL \/ status = NONE
       THEN /\ Respond("verifyTechnicianKyc", p, 400)
            /\ UNCHANGED <<kycs, profiles>>
       ELSE IF status \notin {"approved", "rejected"}
       THEN /\ Respond("verifyTechnicianKyc", p, 400)
            /\ UNCHANGED <<kycs, profiles>>
       ELSE IF status = "rejected" /\ reason = NONE
       THEN /\ Respond("verifyTechnicianKyc", p, 400)
            /\ UNCHANGED <<kycs, profiles>>
       ELSE IF ~kycs[p].present
       THEN /\ Respond("verifyTechnicianKyc", p, 404)
            /\ UNCHANGED <<kycs, profiles>>
       ELSE /\ kycs' = [kycs EXCEPT ![p] =
                           BankOnVerdict(KycVerdict(@, status, reason), status)]
            /\ profiles' = [profiles EXCEPT ![p] = ProfileOnVerdict(@, status)]
            /\ Respond("verifyTechnicianKyc", p, 200)
    /\ UNCHANGED <<engine, strictQuery, call>>

\* verifyBankDetails: the verdict on the bank fields
BankVerdict(k, verified, reason) ==
    [k EXCEPT !.bankVerified = verified,
              !.bankVerificationStatus = IF verified THEN "approved" ELSE "rejected",
              !.bankRejectionReason = IF verified THEN NONE ELSE reason,
              !.bankUpdateRequired = ~verified]

\* verifyBankDetails, with the 'verified' of the body ("true", "false", or
\* NONE for anything that is not a boolean)
VerifyBankDetails(admin, p, verified, reason) ==
    /\ IF ~admin
       THEN Respond("verifyBankDetails", p, 403) /\ UNCHANGED kycs
       ELSE IF p = NULL \/ verified = NONE
       THEN Respond("verifyBankDetails", p, 400) /\ UNCHANGED kycs
       ELSE IF ~kycs[p].present
       THEN Respond("verifyBankDetails", p, 404) /\ UNCHANGED kycs
       ELSE IF kycs[p].accountNumber = NULL
       THEN Respond("verifyBankDetails", p, 400) /\ UNCHANGED kycs
       ELSE IF ~profiles[p].trainingCompleted
       THEN Respond("verifyBankDetails", p, 403) /\ UNCHANGED kycs
       ELSE /\ kycs' = [kycs EXCEPT ![p] = BankVerdict(@, verified = "true", reason)]
            /\ Respond("verifyBankDetails", p, 200)
    /\ UNCHANGED <<engine, profiles, strictQuery, call>>

\* deleteTechnicianKyc: findOneAndDelete({ technicianId })
DeleteTechnicianKyc(admin, p) ==
    /\ IF ~admin
       THEN Respond("deleteTechnicianKyc", p, 403) /\ UNCHANGED kycs
       ELSE IF ~kycs[p].present
       THEN Respond("deleteTechnicianKyc", p, 404) /\ UNCHANGED kycs
       ELSE /\ kycs' = [kycs EXCEPT ![p] = NoKyc]
            /\ Respond("deleteTechnicianKyc", p, 200)
    /\ UNCHANGED <<engine, profiles, strictQuery, call>>

\* Outside the controllers: a technician completes the training, and goes
\* online.
CompleteTraining(p) ==
    /\ ~profiles[p].trainingCompleted
    /\ profiles' = [profiles EXCEPT ![p].trainingCompleted = TRUE]
    /\ UNCHANGED <<engine, kycs, strictQuery, res, call>>

GoOnline(p) ==
    /\ ~profiles[p].isOnline
    /\ profiles' = [profiles EXCEPT ![p].isOnline = TRUE]
    /\ UNCHANGED <<engine, kycs, strictQuery, res, call>>

\* No KYC document yet, every profile new; the build's strictQuery is either.
InitControllers ==
    /\ bookings = [b \in Ids |-> NewBooking("completed", DueAtOf(b))]
    /\ clock = 0
    /\ ticks = [t \in Slots |-> IdleTick]
    /\ ghost = InitGhost
    /\ started = 0
    /\ failures = 0
    /\ kycs = [p \in Techs |-> NoKyc]
    /\ profiles = [p \in Techs |-> NewProfile]
    /\ strictQuery \in BOOLEAN
    /\ res = NoRes
    /\ InitCall

\* The calls on the KYC verdict: submissions, verifications and deletions,
\* while the technicians go online.
KycVerifyStep ==
    \/ \E p \in Techs \cup {NULL} : SubmitTechnicianKyc(p)
    \/ \E admin \in BOOLEAN, p \in Techs \cup {NULL},
          status \in {"approved", "rejected", "pending", NONE},
          reason \in Reasons \cup {NONE} :
           VerifyTechnicianKyc(admin, p, status, reason)
    \/ \E admin \in BOOLEAN, p \in Techs : DeleteTechnicianKyc(admin, p)
    \/ \E p \in Techs : GoOnline(p)

SpecKycVerify == InitControllers /\ [][KycVerifyStep]_vars

\* The calls that write the bank fields, for technicians in training.
BankStep ==
    \/ \E p \in Techs \cup {NULL}, acct \in Accounts \cup {NULL, BadAccount} :
           SubmitTechnicianBankDetails(p, acct)
    \/ \E admin \in BOOLEAN, p \in Techs \cup {NULL},
          verified \in {"true", "false", NONE}, reason \in Reasons \cup {NONE} :
           VerifyBankDetails(admin, p, verified, reason)
    \/ \E admin \in BOOLEAN, p \in Techs \cup {NULL},
          status \in {"approved", "rejected", "pending", NONE},
          reason \in Reasons \cup {NONE} :
           VerifyTechnicianKyc(admin, p, status, reason)
    \/ \E p \in Techs : CompleteTraining(p)

SpecBank == InitControllers /\ [][BankStep]_vars

\* The submissions of the technicians.
SubmitStep ==
    \/ \E p \in Techs \cup {NULL} : SubmitTechnicianKyc(p)
    \/ \E p \in Techs \cup {NULL}, acct \in Accounts \cup {NULL, BadAccount} :
           SubmitTechnicianBankDetails(p, acct)

SpecSubmit == InitControllers /\ [][SubmitStep]_vars

(* ============================== claims =============================== *)
InBatch(t, b) == \E i \in 1..Len(ticks[t].batch) : ticks[t].batch[i].id = b

Returned(t, job) == ticks[t].job = job /\ ticks[t].pc = "done"

\* C1: when an Activation tick has returned without a failure, every booking
\* due by now + 15 min (also one due in the past) has left `scheduled`; every
\* booking the tick selected was due by now + 15 min, is `requested` (or has
\* since been taken by the acceptance flow) and was broadcast exactly once by
\* the tick; the tick broadcast no other booking.
C1_ActivationTick ==
    \A t \in Slots :
        (Returned(t, "activate") /\ ~ticks[t].err) =>
            \A b \in Ids :
                /\ bookings[b].scheduledAt <= ticks[t].now + 15 * 60 * 1000
                       => bookings[b].status # "scheduled"
                /\ InBatch(t, b) =>
                       /\ bookings[b].scheduledAt <= ticks[t].now + 15 * 60 * 1000
                       /\ bookings[b].status = "requested" \/ ghost.epoch[b] >= 1
                       /\ ticks[t].log[b].mb = 1
                /\ ~InBatch(t, b) => ticks[t].log[b].mb = 0

\* An Activation tick has returned after activating two bookings, one of
\* them already past its start.
C1_Witness ==
    \E t \in Slots :
        /\ Returned(t, "activate") /\ ~ticks[t].err
        /\ Len(ticks[t].batch) = 2
        /\ \A b \in Ids : bookings[b].status = "requested" /\ ticks[t].log[b].mb = 1
        /\ \E b \in Ids : bookings[b].scheduledAt < ticks[t].now

\* The tick has left booking b behind: it works on a later one or has returned.
Past(t, b) ==
    \/ ticks[t].pc = "done" /\ InBatch(t, b)
    \/ \E i \in 1..Len(ticks[t].batch) : ticks[t].batch[i].id = b /\ i < ticks[t].i

Recovered(t, b) == ticks[t].job = "noshow" /\ ticks[t].log[b].upd = "match"

\* The document a matched no-show update stores, all in the one update.
RecoveredDoc(t, b) ==
    /\ ticks[t].log[b].doc.technicianId = NULL
    /\ ticks[t].log[b].doc.status = "requested"
    /\ \A k \in Kinds : ticks[t].log[b].doc.remindersSent[k] = FALSE
    /\ ticks[t].log[b].doc.assignedAt = NULL
    /\ ticks[t].log[b].doc.noShowAt = ticks[t].now

\* C2, as stated: after a matched no-show update the booking is stored with
\* technicianId = null, status = requested, the three flags false,
\* assignedAt = null and noShowAt = the tick's time, and once the tick has
\* left the booking behind, the Matching Service and the customer
\* notification were each invoked exactly once for it.
C2_RecoveryAsStated ==
    \A t \in Slots, b \in Ids :
        Recovered(t, b) =>
            /\ RecoveredDoc(t, b)
            /\ Past(t, b) => ticks[t].log[b].mb = 1 /\ ticks[t].log[b].nt = 1

\* C2, amended: as above, but the customer notification was invoked exactly
\* once when the re-broadcast returned and not at all when it threw.
C2_RecoveryAmended ==
    \A t \in Slots, b \in Ids :
        Recovered(t, b) =>
            /\ RecoveredDoc(t, b)
            /\ Past(t, b) =>
                   /\ ticks[t].log[b].mb = 1
                   /\ ticks[t].log[b].nt = IF ticks[t].log[b].mbThrew THEN 0 ELSE 1

\* A no-show tick has returned after recovering a booking whose technician
\* had been reminded, and has re-broadcast it and notified the customer.
C2_Witness ==
    \E t \in Slots, b \in Ids :
        /\ Recovered(t, b) /\ Past(t, b)
        /\ ticks[t].log[b].mb = 1 /\ ticks[t].log[b].nt = 1
        /\ \E k \in Kinds : ghost.delivered[b][ticks[t].log[b].prev][k] > 0
        /\ bookings[b] = ticks[t].log[b].doc

\* C3: a step of a no-show tick changes a stored booking only if, in the
\* state it acts on, that booking has status accepted, noShowAt null and a
\* technician; and a re-broadcast or customer notification of the no-show job
\* is issued only by a tick whose update of that booking matched.
C3_NoShowOnlyEligible ==
    [][\A b \in Ids :
          /\ (bookings'[b] # bookings[b]
                 /\ \E t \in Slots : ticks[t].job = "noshow" /\ ticks'[t] # ticks[t])
               => /\ bookings[b].status = "accepted"
                  /\ bookings[b].noShowAt = NULL
                  /\ bookings[b].technicianId # NULL
          /\ (ghost'.nsBroadcasts[b] # ghost.nsBroadcasts[b]
                 \/ ghost'.nsNotifies[b] # ghost.nsNotifies[b])
               => \E t \in Slots : Recovered(t, b) /\ ticks'[t] # ticks[t]
      ]_vars

\* A no-show tick found a booking it had selected no longer eligible, and
\* left it alone.
C3_Witness ==
    \E t \in Slots, b \in Ids :
        /\ ticks[t].job = "noshow"
        /\ ticks[t].log[b].upd = "nomatch"
        /\ ticks[t].log[b].mb = 0 /\ ticks[t].log[b].nt = 0
        /\ bookings[b].status # "accepted"

\* The technician of booking b in the document tick t selected.
Selected(t, b) ==
    LET i == CHOOSE i \in 1..Len(ticks[t].batch) : ticks[t].batch[i].id = b
    IN ticks[t].batch[i].technicianId

Resolved(t, b) == ticks[t].log[b].upd \in {"match", "nomatch"}

C5_SkipWhenNoMatch ==
    \A b \in Ids :
        /\ \A t \in Slots :
               (ticks[t].job = "activate" /\ ticks[t].log[b].upd = "nomatch")
                   => ticks[t].log[b].mb = 0
        /\ ghost.actBroadcasts[b] <= 1

\* C6: between two consecutive no-show resets of a booking (and before the
\* first), each remindersSent flag has changed from false to true at most
\* once.
C6_FlagRisesOnce ==
    \A b \in Ids, k \in Kinds : ghost.rises[b][k] <= 1

\* A flag rose during the first assignment, the booking was recovered as a
\* no-show, and a flag has risen once more since that reset.
C6_Witness ==
    \E b \in Ids :
        /\ ghost.recov[b][1] = 1
        /\ \E k \in Kinds : ghost.delivered[b][1][k] >= 1
        /\ \E k \in Kinds : ghost.rises[b][k] = 1

\* C7: a reminder of one kind is delivered more than once to the technician
\* of one assignment only if a flag-set update of that kind failed for that
\* assignment.
C7_DeliveredOnce ==
    \A b \in Ids, e \in 1..MaxAssign, k \in Kinds :
        ~ghost.flagFail[b][e][k] => ghost.delivered[b][e][k] <= 1

\* C8: a booking without an assigned technician (not yet accepted, or
\* recovered from a no-show) has its three remindersSent flags false.
C8_FlagsOnlyWhileAssigned ==
    \A b \in Ids :
        bookings[b].technicianId = NULL
            => \A k \in Kinds : bookings[b].remindersSent[k] = FALSE

\* C9: a booking created scheduled, activated by the Activation job and then
\* accepted by a technician who stays assigned has, when its start time
\* comes, had each of the reminders h24, h1 and min15 delivered to that
\* technician exactly once.
C9_AllRemindersBeforeStart ==
    \A b \in Ids :
        (/\ clock >= bookings[b].scheduledAt
         /\ bookings[b].status = "accepted"
         /\ bookings[b].assignedAt <= bookings[b].scheduledAt - 15 * MIN)
            => \A k \in Kinds : ghost.delivered[b][bookings[b].technicianId][k] = 1

\* C10: a reminder job selects a booking exactly when its status is accepted,
\* its flag of that job is false and its start lies in the closed window
\* [now + 23 h, now + 25 h], [now + 55 min, now + 65 min] or
\* [now + 10 min, now + 20 min] of the job, in milliseconds.
C10_SelectsClosedWindow ==
    \A t \in Slots, b \in Ids :
        ticks[t].job \in Kinds =>
            LET k == ticks[t].job
                d == bookings[b].scheduledAt - ticks[t].now
                lo == CASE k = "h24" -> 82800000 [] k = "h1" -> 3300000
                        [] k = "min15" -> 600000
                hi == CASE k = "h24" -> 90000000 [] k = "h1" -> 3900000
                        [] k = "min15" -> 1200000
            IN InBatch(t, b) <=> /\ bookings[b].status = "accepted"
                                 /\ ~bookings[b].remindersSent[k]
                                 /\ lo <= d /\ d <= hi

\* A job selected a booking that starts on the lower edge of its window and
\* left out an accepted booking, its flag false, that starts one millisecond
\* after the upper edge.
C10_Witness ==
    \E t \in Slots, b, c \in Ids :
        /\ ticks[t].job \in Kinds
        /\ InBatch(t, b)
        /\ bookings[b].scheduledAt = WindowMin(ticks[t].job, ticks[t].now)
        /\ ~InBatch(t, c)
        /\ bookings[c].status = "accepted"
        /\ ~bookings[c].remindersSent[ticks[t].job]
        /\ bookings[c].scheduledAt = WindowMax(ticks[t].job, ticks[t].now) + 1

\* C11: when the execution flow has moved a selected booking from accepted
\* to on_the_way, reached, in_progress or completed before the no-show job's
\* guarded update runs, the update matches nothing: the step changes no
\* booking field, and the tick issues neither the re-broadcast nor the
\* customer notification for that booking.
C11_StartedIsNotRecovered ==
    /\ [](\A t \in Slots, b \in Ids :
             (ticks[t].job = "noshow" /\ ticks[t].log[b].upd = "nomatch")
                 => ticks[t].log[b].mb = 0 /\ ticks[t].log[b].nt = 0)
    /\ [][\A t \in Slots :
             (/\ ticks[t].pc = "ns_update"
              /\ ticks'[t] # ticks[t]
              /\ bookings[Cur(t).id].status \in LaterStatus)
                 => /\ bookings' = bookings
                    /\ ghost' = ghost
                    /\ ticks'[t].pc # "ns_broadcast"
                    /\ ticks'[t].log[Cur(t).id].upd \in {"nomatch", "throw"}]_vars

\* A no-show tick selected an assigned booking, the technician set out (and
\* went on) before the guarded update, and the update found no match: the
\* technician is still assigned and no no-show is stamped.
C11_Witness ==
    \E t \in Slots, b \in Ids :
        /\ ticks[t].job = "noshow"
        /\ ticks[t].log[b].upd = "nomatch"
        /\ bookings[b].status \in LaterStatus \ {"on_the_way"}
        /\ \E i \in 1..Len(ticks[t].batch) :
               /\ ticks[t].batch[i].id = b
               /\ ticks[t].batch[i].technicianId = bookings[b].technicianId
        /\ bookings[b].technicianId # NULL
        /\ bookings[b].noShowAt = NULL

Aborted(t, job) ==
    /\ Returned(t, job)
    /\ ticks[t].err
    /\ ticks[t].batch = <<>>

\* C13: an Activation tick whose find() rejects changes no booking and has
\* called nothing, so every booking that was eligible is still eligible; and
\* with the job ticking fairly, every booking stored as scheduled that starts
\* within 15 minutes is eventually moved to requested by a tick whose find()
\* succeeds.  (A tick can still start: started < MaxTicks.)
C13_ActivationRetries ==
    /\ [][\A t \in Slots :
             StartTickFail(t, "activate")
                 => /\ bookings' = bookings
                    /\ ghost' = ghost
                    /\ \A b \in Ids : ticks'[t].log[b] = NoLog]_vars
    /\ \A b \in Ids :
           (/\ bookings[b].status = "scheduled"
            /\ bookings[b].scheduledAt <= clock + 15 * 60 * 1000
            /\ started < MaxTicks)
               ~> (bookings[b].status = "requested" /\ ghost.actBroadcasts[b] >= 1)

\* An Activation tick has just aborted on its find() while a booking already
\* past its start was waiting to be activated; the booking is still selected
\* by the query of the next tick.
C13_Witness ==
    \E t \in Slots, b \in Ids :
        /\ Aborted(t, "activate")
        /\ bookings[b].status = "scheduled"
        /\ bookings[b].scheduledAt < ticks[t].now
        /\ ActivateSelect(bookings[b], clock)
        /\ started < MaxTicks

\* A step of the tick in slot t failed while it processed booking b.
Failed(t, b) == ticks[t].log[b].upd = "throw" \/ ticks[t].log[b].mbThrew

\* The tick in slot t took booking b through every step of its job, with
\* the stored result of a run without failure.
Completed(t, b) ==
    LET l == ticks[t].log[b]
    IN CASE ticks[t].job = "activate" ->
                /\ l.upd \in {"match", "nomatch"} /\ l.mb = 1
                /\ bookings[b].status = "requested"
         [] ticks[t].job = "noshow" ->
                \/ l.upd = "nomatch" /\ l.mb = 0 /\ l.nt = 0
                \/ /\ l.upd = "match" /\ l.mb = 1 /\ l.nt = 1
                   /\ bookings[b] = l.doc
         [] OTHER ->
                /\ l.upd = "match"
                /\ bookings[b].remindersSent[ticks[t].job]

\* C14: a tick of any of the five jobs that has returned has processed every
\* booking of its batch; a store update or a Matching Service call that
\* throws for one booking leaves every other booking of the batch processed
\* through all its steps, as in a tick without failure.
C14_FailureSkipsOneBooking ==
    \A t \in Slots :
        (ticks[t].pc = "done" /\ ticks[t].batch # <<>>) =>
            /\ \A b \in Ids : InBatch(t, b) => Failed(t, b) \/ Completed(t, b)
            /\ Cardinality({b \in Ids : InBatch(t, b) /\ Failed(t, b)}) <= failures
            /\ \A b \in Ids : ~InBatch(t, b) => ticks[t].log[b] = NoLog

\* A tick has returned whose first booking met a failure and whose later
\* booking was processed completely.
C14_Witness ==
    \E t \in Slots :
        /\ ticks[t].pc = "done"
        /\ Len(ticks[t].batch) >= 2
        /\ Failed(t, ticks[t].batch[1].id)
        /\ \A i \in 2..Len(ticks[t].batch) :
               ~Failed(t, ticks[t].batch[i].id) /\ Completed(t, ticks[t].batch[i].id)

\* C15: a tick of any of the five jobs whose initial find() rejects ends at
\* once: the step changes no booking field, the tick has processed no
\* booking, and neither the Matching Service nor the Reminder Composer nor
\* the customer notification has been invoked by it.
C15_QueryFailureChangesNothing ==
    /\ [](\A t \in Slots, job \in Jobs :
             Aborted(t, job) => \A b \in Ids : ticks[t].log[b] = NoLog)
    /\ [][\A t \in Slots, job \in Jobs :
             StartTickFail(t, job)
                 => /\ bookings' = bookings
                    /\ ghost' = ghost
                    /\ ticks'[t].pc = "done"
                    /\ ticks'[t].batch = <<>>]_vars

\* A reminder tick, and likewise a no-show or an Activation tick, has just
\* aborted on its find() although the store held bookings the query selects;
\* they are as they were.
C15_Witness ==
    \E t \in Slots, job \in Jobs :
        /\ Aborted(t, job)
        /\ \A b \in Ids : Select(job, bookings[b], ticks[t].now)
        /\ \A b \in Ids : ticks[t].log[b] = NoLog
        /\ ghost.actBroadcasts = InitGhost.actBroadcasts
        /\ ghost.delivered = InitGhost.delivered
        /\ ghost.nsBroadcasts = InitGhost.nsBroadcasts

\* C16: when the re-broadcast throws, or the customer notification fails,
\* after a matched no-show update, the booking stays as the update stored
\* it (status requested, technicianId null, the three flags false, noShowAt
\* the tick's time), the tick has moved past the booking, and a tick that
\* has returned has issued the guarded update for every booking of its batch.
C16_NoRollback ==
    \A t \in Slots, b \in Ids :
        (/\ Recovered(t, b)
         /\ ticks[t].log[b].mbThrew \/ ticks[t].log[b].ntFailed)
            => /\ RecoveredDoc(t, b)
               /\ bookings[b] = ticks[t].log[b].doc
               /\ Past(t, b)
               /\ ticks[t].pc = "done"
                      => \A c \in Ids : InBatch(t, c) => ticks[t].log[c].upd # "none"

\* The re-broadcast of the first booking of a batch threw; the booking is
\* still unassigned and requested, and the tick went on to recover the next
\* booking, re-broadcast it and notify its customer.
C16_Witness ==
    \E t \in Slots :
        /\ ticks[t].pc = "done"
        /\ Len(ticks[t].batch) >= 2
        /\ LET b == ticks[t].batch[1].id
               c == ticks[t].batch[2].id
           IN /\ Recovered(t, b) /\ ticks[t].log[b].mbThrew
              /\ bookings[b].status = "requested"
              /\ bookings[b].technicianId = NULL
              /\ bookings[b].noShowAt = ticks[t].now
              /\ Recovered(t, c)
              /\ ticks[t].log[c].mb = 1 /\ ticks[t].log[c].nt = 1

\* C17: with the reminder jobs scheduled fairly, a tick that has begun its
\* batch eventually returns, every booking of the batch behind it, also
\* when a delivery channel never answers.
C17_TickFinishesBatch ==
    \A t \in Slots :
        (ticks[t].pc \notin {"idle", "done"}) ~> (ticks[t].pc = "done")

\* No tick in flight has booking b in its batch.
Unheld(b) == \A t \in Slots : ticks[t].pc \in {"idle", "done"} \/ ~InBatch(t, b)

\* C18: a booking left half-processed by an abandoned tick is picked up by
\* a later tick: a booking the Activation job has moved to requested but not
\* broadcast, and an assignment the no-show job has cleared but not
\* re-broadcast and notified, which no tick in flight holds any more, is
\* still selected by the query of its job.
C18_HalfProcessedIsReselected ==
    \A b \in Ids :
        /\ (/\ bookings[b].status = "requested" /\ ghost.epoch[b] = 0
            /\ ghost.actBroadcasts[b] = 0
            /\ Unheld(b))
               => ActivateSelect(bookings[b], clock)
        /\ \A e \in 1..MaxAssign :
               (/\ ghost.recov[b][e] >= 1
                /\ ghost.nsBroadcasts[b][e] = 0 \/ ghost.nsNotifies[b][e] = 0
                /\ Unheld(b))
                   => NoShowSelect(bookings[b], clock)

\* C19: a step of a job changes the stored status of a booking only from
\* scheduled to requested, in a step of an Activation tick, or from accepted
\* to requested, in a step of a no-show tick; a booking stored as requested,
\* on_the_way, reached, in_progress or completed keeps its status through
\* every step of every job; and no step of a job adds or removes a booking.
C19_OnlyTwoStatusChanges ==
    [][ticks' # ticks =>
          /\ DOMAIN bookings' = DOMAIN bookings
          /\ \A b \in Ids :
                 bookings'[b].status # bookings[b].status =>
                     \/ /\ bookings[b].status = "scheduled"
                        /\ bookings'[b].status = "requested"
                        /\ \E t \in Slots : ticks[t].job = "activate" /\ ticks'[t] # ticks[t]
                     \/ /\ bookings[b].status = "accepted"
                        /\ bookings'[b].status = "requested"
                        /\ \E t \in Slots : ticks[t].job = "noshow" /\ ticks'[t] # ticks[t]
      ]_vars

\* A booking was activated, accepted, recovered as a no-show, accepted again
\* and started, and a no-show tick that had selected it then left its
\* status alone.
C19_Witness ==
    \E b \in Ids, t \in Slots :
        /\ ghost.actBroadcasts[b] >= 1
        /\ ghost.recov[b][1] = 1
        /\ bookings[b].status \in LaterStatus
        /\ ticks[t].job = "noshow"
        /\ ticks[t].log[b].upd = "nomatch"

\* C20: in every reachable state a booking stored as accepted has a
\* technician, and a booking stored as scheduled has none and has its three
\* remindersSent flags false.
C20_StatusAndAssignment ==
    \A b \in Ids :
        /\ bookings[b].status = "accepted" => bookings[b].technicianId # NULL
        /\ bookings[b].status = "scheduled" =>
               /\ bookings[b].technicianId = NULL
               /\ \A k \in Kinds : ~bookings[b].remindersSent[k]

\* A booking activated by the job was reminded, recovered as a no-show and
\* accepted by a second technician, while ticks of the jobs were in flight.
C20_Witness ==
    \E b \in Ids :
        /\ ghost.actBroadcasts[b] >= 1
        /\ ghost.recov[b][1] = 1
        /\ \E k \in Kinds : ghost.delivered[b][1][k] >= 1
        /\ bookings[b].status = "accepted"
        /\ bookings[b].technicianId = 2
        /\ \E t \in Slots : ticks[t].pc \notin {"idle", "done"}

\* C21: when the status update of an Activation tick throws for a booking,
\* the step changes no booking and calls nothing, the tick has left the
\* booking behind without invoking the Matching Service for it, and a
\* booking still stored as scheduled is selected by the query of the next
\* Activation tick.
C21_UpdateErrorSkipsBroadcast ==
    /\ [](\A t \in Slots, b \in Ids :
             (ticks[t].job = "activate" /\ ticks[t].log[b].upd = "throw")
                 => /\ ticks[t].log[b].mb = 0
                    /\ Past(t, b)
                    /\ bookings[b].status = "scheduled"
                           => ActivateSelect(bookings[b], clock))
    /\ [][\A t \in Slots :
             ActUpdateThrow(t) => bookings' = bookings /\ ghost' = ghost]_vars

\* The status update of one Activation tick threw for a scheduled booking;
\* a later tick selected the booking again, activated it and broadcast it.
C21_Witness ==
    \E t, u \in Slots, b \in Ids :
        /\ ticks[t].job = "activate" /\ ticks[u].job = "activate"
        /\ ticks[t].log[b].upd = "throw"
        /\ ticks[t].log[b].mb = 0
        /\ ticks[u].now > ticks[t].now
        /\ ticks[u].log[b].upd = "match"
        /\ ticks[u].log[b].mb = 1
        /\ ghost.actBroadcasts[b] = 1
        /\ bookings[b].status = "requested"

C27_NotifyFollowsBroadcast ==
    /\ \A t \in Slots, b \in Ids :
           ticks[t].job = "noshow" =>
               /\ (ticks[t].log[b].nt > 0 \/ (ticks[t].pc = "ns_notify" /\ Cur(t).id = b))
                      => ticks[t].log[b].mb = 1 /\ ~ticks[t].log[b].mbThrew
               /\ ticks[t].log[b].mbThrew
                      => /\ Past(t, b)
                         /\ ticks[t].log[b].nt = 0
                         /\ ghost.nsBroadcasts[b][ticks[t].log[b].prev] = 1
                         /\ ghost.nsNotifies[b][ticks[t].log[b].prev] = 0
                         /\ bookings[b].noShowAt # NULL
                                => ~NoShowSelect(bookings[b], clock)
    /\ \A b \in Ids, e \in 1..MaxAssign :
           ghost.nsNotifies[b][e] <= ghost.nsBroadcasts[b][e]

\* The re-broadcast of a recovered booking threw; the tick returned without
\* notifying the customer; the booking is stored as the recovery left it,
\* past its grace period still, and the no-show query does not select it.
C27_Witness ==
    \E t \in Slots, b \in Ids :
        /\ Recovered(t, b) /\ ticks[t].log[b].mbThrew
        /\ Returned(t, "noshow")
        /\ ticks[t].log[b].nt = 0
        /\ bookings[b] = ticks[t].log[b].doc
        /\ ~NoShowSelect(bookings[b], clock)
        /\ NoShowSelect([bookings[b] EXCEPT !.status = "accepted", !.noShowAt = NULL,
                                            !.technicianId = ticks[t].log[b].prev],
                        clock)
        /\ ghost.nsBroadcasts[b][ticks[t].log[b].prev] = 1
        /\ ghost.nsNotifies[b][ticks[t].log[b].prev] = 0

Tried(what) == \E i \in 1..Len(call.out.trace) : call.out.trace[i] = what

\* C23: a call of sendScheduledReminder, whatever booking and kind it is
\* given and whichever collaborator fails, does not raise and returns a
\* success or a failure; for a booking without technician it returns a failure
\* and has called no lookup, no push, no socket event and no SMS.
C23_ReminderNeverRaises ==
    call.fn = "sendScheduledReminder" =>
        /\ ~call.out.raised
        /\ call.out.success \in BOOLEAN
        /\ ~call.in.technician => ~call.out.success /\ call.out.trace = <<>>
        /\ (call.in.lookup = "throws" \/ call.in.push = "throws") => ~call.out.success

\* A call for a booking without technician, where every collaborator would
\* have failed, returned a failure and called nothing.
C23_Witness ==
    /\ call.fn = "sendScheduledReminder"
    /\ ~call.in.technician
    /\ call.in.io
    /\ call.in.lookup = "throws" /\ call.in.push = "throws"
    /\ call.in.socket = "throws" /\ call.in.sms = "throws"
    /\ ~call.out.raised /\ ~call.out.success
    /\ call.out.trace = <<>>

\* C24: a reminder job's call of sendScheduledReminder attempts the SMS only
\* for the kinds h1 and min15, never for h24, and only as its last call,
\* behind the push and (with a socket server) the socket event; with the SMS
\* attempted, failing or not, the call returns success without raising, and
\* the tick stands at the flag update of that booking.
C24_SmsIsBestEffort ==
    /\ [](call.fn = "sendScheduledReminder" =>
             /\ call.in.type = "h24" => ~Tried("sms")
             /\ Tried("sms") =>
                    /\ call.in.type \in {"h1", "min15"}
                    /\ call.out.trace = IF call.in.io
                                        THEN <<"lookup", "push", "socket", "sms">>
                                        ELSE <<"lookup", "push", "sms">>
                    /\ call.in.push = "ok"
                    /\ call.in.io => call.in.socket = "ok"
                    /\ ~call.out.raised /\ call.out.success)
    /\ [][\A t \in Slots :
             (ticks[t].pc = "rem_send" /\ ticks'[t] # ticks[t] /\ Tried("sms")')
                 => /\ ticks'[t].pc = "rem_flag"
                    /\ Cur(t)' = Cur(t)
                    /\ ticks'[t].err = ticks[t].err
                    /\ ticks'[t].log[Cur(t).id].sent = 1]_vars

\* The SMS of an h1 or min15 reminder failed behind a delivered push and
\* socket event; the call returned success, and the tick went on to set the
\* flag and returned without error.
C24_Witness ==
    \E t \in Slots, b \in Ids :
        /\ call.fn = "sendScheduledReminder"
        /\ call.in.sms = "throws" /\ call.in.io
        /\ call.out.trace = <<"lookup", "push", "socket", "sms">>
        /\ call.out.success
        /\ ticks[t].job = call.in.type
        /\ Returned(t, ticks[t].job) /\ ~ticks[t].err
        /\ InBatch(t, b)
        /\ ticks[t].batch[Len(ticks[t].batch)].id = b
        /\ ticks[t].log[b].sent = 1
        /\ ticks[t].log[b].upd = "match"
        /\ bookings[b].remindersSent[ticks[t].job]

\* C25, as stated: a socket emit that throws prevents neither the SMS of
\* sendScheduledReminder (due for h1 and min15, with a phone number, behind a
\* delivered push) nor the customer SMS of notifyCustomerOfRebroadcast (due
\* for a customer with a mobile number).
C25_SocketFailureSparesSms ==
    /\ (/\ call.fn = "sendScheduledReminder"
        /\ call.in.technician
        /\ call.in.type \in {"h1", "min15"}
        /\ call.in.lookup = "phone"
        /\ call.in.push = "ok"
        /\ call.in.io /\ call.in.socket = "throws")
           => Tried("sms")
    /\ (/\ call.fn = "notifyCustomerOfRebroadcast"
        /\ call.in.customer
        /\ call.in.lookup = "mobile"
        /\ call.in.io /\ call.in.emit = "throws")
           => Tried("sms")

\* C26: a call of notifyCustomerOfRebroadcast by the no-show job does not
\* raise, whichever of the socket emit, the customer lookup and the SMS
\* fails; without a customerId it calls nothing; and the step of the call
\* leaves every stored booking as it is and the tick past that booking with
\* no error recorded.
C26_NotifyNeverRaises ==
    /\ [](call.fn = "notifyCustomerOfRebroadcast" =>
             /\ ~call.out.raised
             /\ ~call.in.customer => call.out.trace = <<>>)
    /\ [][\A t \in Slots :
             (ticks[t].pc = "ns_notify" /\ ticks'[t] # ticks[t])
                 => /\ call'.fn = "notifyCustomerOfRebroadcast"
                    /\ bookings' = bookings
                    /\ ticks'[t].err = ticks[t].err
                    /\ ticks'[t].log[Cur(t).id].upd = "match"
                    /\ \/ ticks'[t].pc = "done"
                       \/ /\ ticks'[t].i = ticks[t].i + 1
                          /\ ticks'[t].pc = "ns_update"]_vars

\* The socket emit of the customer notification of the first recovered
\* booking threw, so that neither lookup nor SMS followed; the tick went on
\* to the next booking and recovered it.
C26_Witness ==
    \E t \in Slots :
        /\ ticks[t].job = "noshow" /\ ~ticks[t].err
        /\ ticks[t].i = 2 /\ ticks[t].pc = "ns_broadcast"
        /\ ticks[t].log[ticks[t].batch[1].id].nt = 1
        /\ ticks[t].log[ticks[t].batch[1].id].ntFailed
        /\ ticks[t].log[Cur(t).id].upd = "match"
        /\ call.fn = "notifyCustomerOfRebroadcast"
        /\ call.in.customer /\ call.in.io /\ call.in.emit = "throws"
        /\ call.in.lookup = "mobile"
        /\ call.out.trace = <<"socket">>

\* C28: whatever calls have been answered, a KYC document has kycVerified
\* true exactly when its verificationStatus is approved and carries a
\* rejectionReason only when it is rejected; and when the last answer is a
\* saved submitTechnicianKyc, the document of that technician is pending
\* with kycVerified false and no rejectionReason.
C28_KycFlagFollowsStatus ==
    /\ \A p \in Techs :
           kycs[p].present =>
               /\ kycs[p].kycVerified <=> kycs[p].verificationStatus = "approved"
               /\ kycs[p].rejectionReason # NONE
                      => kycs[p].verificationStatus = "rejected"
    /\ (res.op = "submitTechnicianKyc" /\ res.code = 200) =>
           /\ kycs[res.tech].present
           /\ kycs[res.tech].verificationStatus = "pending"
           /\ ~kycs[res.tech].kycVerified
           /\ kycs[res.tech].rejectionReason = NONE

\* A technician whose KYC was approved, and who has worked since, submitted
\* again: the document is back at pending, not verified.
C28_Witness ==
    /\ res.op = "submitTechnicianKyc" /\ res.code = 200
    /\ profiles[res.tech].workStatus = "approved"
    /\ kycs[res.tech].verificationStatus = "pending"
    /\ ~kycs[res.tech].kycVerified
    /\ \E q \in Techs \ {res.tech} :
           /\ kycs[q].verificationStatus = "rejected"
           /\ kycs[q].rejectionReason \in Reasons

\* C29: whatever bank submissions, bank verifications and KYC verifications
\* have been answered on documents that began at the schema's defaults, a
\* document has bankVerified true exactly when its bankVerificationStatus is
\* approved.
C29_BankFlagFollowsStatus ==
    \A p \in Techs :
        kycs[p].present =>
            (kycs[p].bankVerified <=> kycs[p].bankVerificationStatus = "approved")

\* The bank details of a technician were rejected by verifyBankDetails, and
\* the approval of the KYC then verified them.
C29_Witness ==
    \E p \in Techs :
        /\ res.op = "verifyTechnicianKyc" /\ res.code = 200 /\ res.tech = p
        /\ kycs[p].verificationStatus = "approved"
        /\ kycs[p].accountNumber # NULL
        /\ profiles[p].trainingCompleted
        /\ kycs[p].bankVerified
        /\ kycs[p].bankVerificationStatus = "approved"
        /\ \E q \in Techs \ {p} :
               /\ kycs[q].present
               /\ kycs[q].bankVerificationStatus = "rejected"
               /\ ~kycs[q].bankVerified

\* C30, as stated: a submitTechnicianBankDetails answered with 200 stored an
\* account number, if any, that no other technician's document carries, and
\* no two documents carry the same account number.
C30_AccountNumbersUnique ==
    /\ (res.op = "submitTechnicianBankDetails" /\ res.code = 200) =>
           \A q \in Techs \ {res.tech} :
               (kycs[q].present /\ kycs[q].accountNumber # NULL)
                   => kycs[q].accountNumber # kycs[res.tech].accountNumber
    /\ \A p, q \in Techs :
           (/\ p # q
            /\ kycs[p].present /\ kycs[q].present
            /\ kycs[p].accountNumber # NULL)
               => kycs[p].accountNumber # kycs[q].accountNumber

\* C31, as stated: whatever submissions, verifications and deletions have
\* been answered, a profile with workStatus approved (only verifyTechnicianKyc
\* writes it) has a KYC document with verificationStatus approved.
C31_ApprovedWorkNeedsApprovedKyc ==
    \A p \in Techs :
        profiles[p].workStatus = "approved"
            => kycs[p].present /\ kycs[p].verificationStatus = "approved"
====
